---- MODULE Spec2Model ----
(***************************************************************************)
(* Model of streamlit_app.py (PDF -> Excel converter).                     *)
(*                                                                         *)
(* Strings are sequences of one-character strings, so that the character   *)
(* level functions (sanitize_sheet_name, is_number, str.strip,             *)
(* str.splitlines, the f-string formatting of integers) are computed, not  *)
(* assumed.                                                                *)
(***************************************************************************)
EXTENDS Integers, Sequences, FiniteSets, TLC

\* ---------------------------------------------------------------------------
\* Bounds of the model
\* ---------------------------------------------------------------------------
MaxPre == 1
MaxPost == 2
MaxPages == 3
MaxFiles == 3
MaxNum == 4
MaxStr == 18
MaxRows == 2
MaxCols == 2
MaxExisting == 3
MaxSuffix == 8

\* ---------------------------------------------------------------------------
\* Program constants
\* ---------------------------------------------------------------------------
\* name[:31]
MaxSheetLen == 31

\* ---------------------------------------------------------------------------
\* Characters and strings
\* ---------------------------------------------------------------------------
Min(a, b) == IF a < b THEN a ELSE b
Max(a, b) == IF a > b THEN a ELSE b

\* the character class [:\\/\?\*\[\]] of the first re.sub
Forbidden == {":", "\\", "/", "?", "*", "[", "]"}

\* the characters matched by \s and removed by str.strip() (those used here)
Whitespace == {" ", "\t", "\n"}

IsSpace(c) == c \in Whitespace

RECURSIVE Rep(_, _)
Rep(c, n) == IF n <= 0 THEN <<>> ELSE <<c>> \o Rep(c, n - 1)

RECURSIVE LStrip(_)
LStrip(s) == IF s # <<>> /\ IsSpace(Head(s)) THEN LStrip(Tail(s)) ELSE s

RECURSIVE RStrip(_)
RStrip(s) ==
    IF s # <<>> /\ IsSpace(s[Len(s)]) THEN RStrip(SubSeq(s, 1, Len(s) - 1)) ELSE s

\* str.strip()
Strip(s) == RStrip(LStrip(s))

\* re.sub(r'[:\\/\?\*\[\]]', ' ', name)
ReplaceForbidden(name) ==
    [i \in 1..Len(name) |-> IF name[i] \in Forbidden THEN " " ELSE name[i]]

\* re.sub(r'\s+', ' ', name): every maximal run of whitespace becomes one space
RECURSIVE CollapseWs(_)
CollapseWs(s) ==
    IF s = <<>> THEN <<>>
    ELSE IF IsSpace(Head(s)) THEN <<" ">> \o CollapseWs(LStrip(Tail(s)))
    ELSE <<Head(s)>> \o CollapseWs(Tail(s))

\* the literal "Sheet"
SheetLiteral == <<"S", "h", "e", "e", "t">>

\* mutant: the truncation is forgotten
sanitize_no_truncate(name) ==
    LET n == Strip(CollapseWs(ReplaceForbidden(name)))
    IN  IF n # <<>> THEN n ELSE SheetLiteral

sanitize_sheet_name(name) ==
    LET n == Strip(CollapseWs(ReplaceForbidden(name)))
    IN  IF n # <<>> THEN SubSeq(n, 1, Min(MaxSheetLen, Len(n))) ELSE SheetLiteral

\* all strings over alphabet A of length at most n
RECURSIVE StrUpTo(_, _)
StrUpTo(A, n) ==
    IF n = 0 THEN {<<>>}
    ELSE LET S == StrUpTo(A, n - 1)
         IN  S \cup {<<c>> \o s : c \in A, s \in {t \in S : Len(t) = n - 1}}

\* the decimal digits
Digits == <<"0", "1", "2", "3", "4", "5", "6", "7", "8", "9">>
DigitSet == {Digits[i] : i \in 1..10}

\* str(n) for a non-negative integer n, as used by the f-strings
RECURSIVE ToStr(_)
ToStr(n) == IF n < 10 THEN <<Digits[n + 1]>> ELSE ToStr(n \div 10) \o <<Digits[(n % 10) + 1]>>

\* ---------------------------------------------------------------------------
\* Cells, rows, grids
\* ---------------------------------------------------------------------------
\* Python None as a cell value (distinct from every string)
NoneCell == <<"<None>">>

\* str(x) of a cell
PyStr(x) == IF x = NoneCell THEN <<"N", "o", "n", "e">> ELSE x

\* cell not in (None, "") is the negation of this
IsBlank(cell) == cell = NoneCell \/ cell = <<>>

\* .replace(",", "")
RemoveCommas(s) == SelectSeq(s, LAMBDA c : c # ",")

\* float(s) succeeds: optional surrounding whitespace, optional sign, decimal
\* digits with at most one point and at least one digit.  (Exponents,
\* underscores, inf and nan cannot be spelled with the cell alphabet used.)
FloatParses(s) ==
    LET t == Strip(s)
        u == IF t # <<>> /\ t[1] \in {"+", "-"} THEN Tail(t) ELSE t
    IN  /\ u # <<>>
        /\ \A i \in 1..Len(u) : u[i] \in DigitSet \cup {"."}
        /\ Cardinality({i \in 1..Len(u) : u[i] = "."}) <= 1
        /\ \E i \in 1..Len(u) : u[i] \in DigitSet

\* is_number(x): float(str(x).replace(",", "")) does not raise
is_number(x) == FloatParses(RemoveCommas(PyStr(x)))

\* return value None of infer_header_row
NoHeader == -1

\* numeric_ratio > 0.15, in exact arithmetic: num / den > RatioNum / RatioDen.
\* (The double nearest 0.15 is also the correctly rounded quotient 3/20, and no
\* other quotient of integers below 2^50 rounds to it, so the float comparison
\* agrees with the exact one.)
RatioNum == 15
RatioDen == 100

\* [cell for row in rows[1:] for cell in row if cell not in (None, "")]
RECURSIVE Remaining(_)
Remaining(rest) ==
    IF rest = <<>> THEN <<>>
    ELSE SelectSeq(Head(rest), LAMBDA cell : ~IsBlank(cell)) \o Remaining(Tail(rest))

\* sum(is_number(x) for x in remaining)
NumericCount(cells) == Len(SelectSeq(cells, is_number))

\* mutant: the threshold comparison is >= instead of >
infer_header_row_ge(rows) ==
    IF rows = <<>> \/ rows[1] = <<>> THEN NoHeader
    ELSE LET first == rows[1]
             first_all_str ==
                 \A i \in 1..Len(first) : first[i] = NoneCell \/ ~is_number(first[i])
             remaining == Remaining(Tail(rows))
         IN  IF ~first_all_str THEN NoHeader
             ELSE IF NumericCount(remaining) * RatioDen
                       >= RatioNum * Max(1, Len(remaining))
                  THEN 0 ELSE NoHeader

infer_header_row(rows) ==
    IF rows = <<>> \/ rows[1] = <<>> THEN NoHeader
    ELSE LET first == rows[1]
             first_all_str ==
                 \A i \in 1..Len(first) : first[i] = NoneCell \/ ~is_number(first[i])
             remaining == Remaining(Tail(rows))
         IN  IF ~first_all_str THEN NoHeader
             ELSE IF NumericCount(remaining) * RatioDen
                       > RatioNum * Max(1, Len(remaining))
                  THEN 0 ELSE NoHeader

\* mutant: the empty rows are not dropped
clean_table_data_keep_rows(rows) ==
    IF rows = <<>> THEN rows
    ELSE LET max_len == CHOOSE m \in {Len(rows[i]) : i \in 1..Len(rows)} :
                            \A i \in 1..Len(rows) : Len(rows[i]) <= m
             padded == [i \in 1..Len(rows) |->
                           rows[i] \o Rep(NoneCell, max_len - Len(rows[i]))]
             cols_to_keep ==
                 SelectSeq([c \in 1..max_len |-> c],
                           LAMBDA c : \E i \in 1..Len(padded) : ~IsBlank(padded[i][c]))
         IN  [i \in 1..Len(padded) |->
                 [k \in 1..Len(cols_to_keep) |-> padded[i][cols_to_keep[k]]]]

clean_table_data(rows) ==
    IF rows = <<>> THEN rows
    ELSE LET kept == SelectSeq(rows,
                         LAMBDA row : \E j \in 1..Len(row) : ~IsBlank(row[j]))
         IN  IF kept = <<>> THEN kept
             ELSE LET max_len == CHOOSE m \in {Len(kept[i]) : i \in 1..Len(kept)} :
                                     \A i \in 1..Len(kept) : Len(kept[i]) <= m
                      padded == [i \in 1..Len(kept) |->
                                    kept[i] \o Rep(NoneCell, max_len - Len(kept[i]))]
                      cols_to_keep ==
                          SelectSeq([c \in 1..max_len |-> c],
                                    LAMBDA c : \E i \in 1..Len(padded) :
                                                   ~IsBlank(padded[i][c]))
                  IN  [i \in 1..Len(padded) |->
                          [k \in 1..Len(cols_to_keep) |-> padded[i][cols_to_keep[k]]]]

\* ---------------------------------------------------------------------------
\* Sheet naming (convert_pdf_to_excel_bytes, the lines that name a table sheet)
\* ---------------------------------------------------------------------------
\* f"p{page_index}_tbl{table_count_this_page+1}"
TableSheetCandidate(page_index, table_count_this_page) ==
    <<"p">> \o ToStr(page_index) \o <<"_", "t", "b", "l">>
            \o ToStr(table_count_this_page + 1)

\* f"{base}_{suffix}"
Suffixed(base, suffix) == base \o <<"_">> \o ToStr(suffix)

\* while sheet in writer.book.sheetnames: sheet = sanitize(...); suffix += 1
RECURSIVE UniqueLoop(_, _, _, _)
UniqueLoop(sheet, base, suffix, sheetnames) ==
    IF sheet \in sheetnames
    THEN UniqueLoop(sanitize_sheet_name(Suffixed(base, suffix)), base, suffix + 1, sheetnames)
    ELSE sheet

\* the literals "Text" and "Info"
TextName == <<"T", "e", "x", "t">>
InfoName == <<"I", "n", "f", "o">>

\* mutant: the ordinal of the table on its page is left out of the name and
\* the collision loop is skipped
SheetNameFor_no_ordinal(page_index, table_count_this_page, sheetnames) ==
    sanitize_sheet_name(TableSheetCandidate(page_index, 0))

SheetNameFor(page_index, table_count_this_page, sheetnames) ==
    LET base == sanitize_sheet_name(TableSheetCandidate(page_index, table_count_this_page))
    IN  UniqueLoop(base, base, 2, sheetnames)

\* ---------------------------------------------------------------------------
\* The collaborators' answers for one page, and the per-page extraction
\* ---------------------------------------------------------------------------
\* try: find_tables / extract   except: try: extract_tables   except: []
\* calls: the collaborator calls made; raised: an exception leaves the handler
\* mutant: the inner try is missing, a failure of extract_tables propagates
ExtractTables_no_inner_try(page) ==
    IF page.find.ok
    THEN [tables |-> page.find.tables, calls |-> {"find_tables"}, raised |-> FALSE]
    ELSE IF page.extract.ok
    THEN [tables |-> page.extract.tables,
          calls |-> {"find_tables", "extract_tables"}, raised |-> FALSE]
    ELSE [tables |-> <<>>, calls |-> {"find_tables", "extract_tables"}, raised |-> TRUE]

ExtractTables(page) ==
    IF page.find.ok
    THEN [tables |-> page.find.tables, calls |-> {"find_tables"}, raised |-> FALSE]
    ELSE IF page.extract.ok
    THEN [tables |-> page.extract.tables,
          calls |-> {"find_tables", "extract_tables"}, raised |-> FALSE]
    ELSE [tables |-> <<>>, calls |-> {"find_tables", "extract_tables"}, raised |-> FALSE]

\* str.splitlines() for the line break "\n"
RECURSIVE SplitLines(_, _)
SplitLines(s, cur) ==
    IF s = <<>> THEN (IF cur = <<>> THEN <<>> ELSE <<cur>>)
    ELSE IF Head(s) = "\n" THEN <<cur>> \o SplitLines(Tail(s), <<>>)
    ELSE SplitLines(Tail(s), Append(cur, Head(s)))

\* try: txt = page.extract_text() or ""   except: txt = ""
ExtractText(page) ==
    IF page.text.ok THEN [txt |-> page.text.txt, raised |-> FALSE]
    ELSE [txt |-> <<>>, raised |-> FALSE]

\* the rows appended to text_rows for one page
PageTextRows(txt, page_index) ==
    IF Strip(txt) = <<>> THEN <<>>
    ELSE LET lines == SelectSeq(SplitLines(txt, <<>>), LAMBDA l : Strip(l) # <<>>)
         IN  [i \in 1..Len(lines) |-> [Page |-> page_index, Text |-> Strip(lines[i])]]

\* looks_scanned(page)
looks_scanned(page) ==
    IF page.words.ok /\ (page.words.n > 0 \/ page.images.ok)
    THEN page.words.n = 0 /\ page.images.n > 0
    ELSE FALSE

\* not rows or len(rows) == 0 or (len(rows) == 1 and len(rows[0]) <= 1)
IsNoise(rows) == rows = <<>> \/ (Len(rows) = 1 /\ Len(rows[1]) <= 1)

\* the DataFrame written for a surviving grid, given header_idx
DataFrameSheet(sheet, rows, header_idx) ==
    IF header_idx # NoHeader
    THEN [name |-> sheet, kind |-> "table", labeled |-> TRUE,
          columns |-> [i \in 1..Len(rows[header_idx + 1]) |->
                          IF rows[header_idx + 1][i] # NoneCell
                          THEN PyStr(rows[header_idx + 1][i]) ELSE <<>>],
          data |-> SubSeq(rows, header_idx + 2, Len(rows))]
    ELSE [name |-> sheet, kind |-> "table", labeled |-> FALSE,
          columns |-> [i \in 1..Len(rows[1]) |-> ToStr(i - 1)],
          data |-> rows]

\* header_idx = infer_header_row(rows); df = ...; df.to_excel(...)
TableSheet(sheet, rows) == DataFrameSheet(sheet, rows, infer_header_row(rows))

SheetNames(book) == {book[i].name : i \in 1..Len(book)}

\* for raw_rows in extracted_tables: ... ; returns the book and
\* table_count_this_page
RECURSIVE WriteTables(_, _, _, _)
WriteTables(tables, page_index, count, book) ==
    IF tables = <<>> THEN [book |-> book, count |-> count]
    ELSE LET rows == clean_table_data(Head(tables))
         IN  IF IsNoise(rows) THEN WriteTables(Tail(tables), page_index, count, book)
             ELSE WriteTables(Tail(tables), page_index, count + 1,
                      Append(book, TableSheet(SheetNameFor(page_index, count,
                                                           SheetNames(book)), rows)))

\* ---------------------------------------------------------------------------
\* One document: the state of convert_pdf_to_excel_bytes as a record, so that
\* the page loop can be stepped (Spec) and run to completion (the batch driver)
\* ---------------------------------------------------------------------------
\* the None written in the Page column of the placeholder row
NoPage == 0

\* "No extractable content found."
NoContentText ==
    <<"N", "o", " ", "e", "x", "t", "r", "a", "c", "t", "a", "b", "l", "e", " ",
      "c", "o", "n", "t", "e", "n", "t", " ", "f", "o", "u", "n", "d", ".">>

\* ocr_pages = [], tables_found = 0, text_rows = [], an empty workbook
ConvStart ==
    [book |-> <<>>, tables_found |-> 0, text_rows |-> <<>>, ocr_pages |-> <<>>,
     calls |-> <<>>, page_tables |-> <<>>, raised |-> FALSE]

\* the body of the page loop once the tables are extracted (ext), the
\* surviving ones written (w) and the text read (txt)
PageOutcome(st, page, page_index, ext, w, txt) ==
    IF ext.raised \/ (w.count = 0 /\ txt.raised)
    THEN [st EXCEPT !.raised = TRUE,
                    !.calls = Append(@, ext.calls \cup
                                 (IF ext.raised THEN {} ELSE {"extract_text"}))]
    ELSE [book |-> w.book,
          tables_found |-> st.tables_found + w.count,
          text_rows |-> IF w.count = 0
                        THEN st.text_rows \o PageTextRows(txt.txt, page_index)
                        ELSE st.text_rows,
          ocr_pages |-> IF w.count = 0 /\ looks_scanned(page)
                        THEN Append(st.ocr_pages, page_index)
                        ELSE st.ocr_pages,
          calls |-> Append(st.calls, ext.calls \cup
                        (IF w.count = 0 THEN {"extract_text", "extract_words"} ELSE {})),
          page_tables |-> Append(st.page_tables, w.count),
          raised |-> FALSE]

\* one iteration of: for page_index, page in enumerate(pdf.pages, start=1)
ConvPage(st, page, page_index) ==
    PageOutcome(st, page, page_index, ExtractTables(page),
                WriteTables(ExtractTables(page).tables, page_index, 0, st.book),
                ExtractText(page))

\* ", ".join(map(str, ocr_pages))
RECURSIVE JoinPages(_)
JoinPages(ps) ==
    IF ps = <<>> THEN <<>>
    ELSE IF Len(ps) = 1 THEN ToStr(ps[1])
    ELSE ToStr(ps[1]) \o <<",", " ">> \o JoinPages(Tail(ps))

\* the 'Text' sheet: the collected lines, or the placeholder row
TextSheet(text_rows) ==
    [name |-> TextName, kind |-> "text", labeled |-> TRUE,
     columns |-> <<<<"P", "a", "g", "e">>, TextName>>,
     data |-> IF text_rows # <<>> THEN text_rows
              ELSE <<[Page |-> NoPage, Text |-> NoContentText]>>]

\* the 'Info' sheet
InfoSheet(ocr_pages) ==
    [name |-> InfoName, kind |-> "info", labeled |-> TRUE,
     columns |-> <<<<"N", "o", "t", "e">>, <<"P", "a", "g", "e", "s">>>>,
     data |-> <<[Pages |-> JoinPages(ocr_pages)]>>]

\* mutant: the placeholder is forgotten, the Text sheet is written only when
\* there are text rows
ConvFinish_no_placeholder(st) ==
    LET b1 == IF st.tables_found = 0 /\ st.text_rows # <<>>
              THEN Append(st.book, TextSheet(st.text_rows)) ELSE st.book
    IN  IF st.ocr_pages # <<>> THEN Append(b1, InfoSheet(st.ocr_pages)) ELSE b1

\* mutant: the Text sheet is written whenever text rows were collected
ConvFinish_text_always(st) ==
    LET b1 == IF st.tables_found = 0 \/ st.text_rows # <<>>
              THEN Append(st.book, TextSheet(st.text_rows)) ELSE st.book
    IN  IF st.ocr_pages # <<>> THEN Append(b1, InfoSheet(st.ocr_pages)) ELSE b1

\* mutant: the Info sheet is written for every document
ConvFinish_info_always(st) ==
    LET b1 == IF st.tables_found = 0
              THEN Append(st.book, TextSheet(st.text_rows)) ELSE st.book
    IN  Append(b1, InfoSheet(st.ocr_pages))

\* after the page loop: the Text sheet if no table was written in the whole
\* document, then the Info sheet if any page looked scanned
ConvFinish(st) ==
    LET b1 == IF st.tables_found = 0
              THEN Append(st.book, TextSheet(st.text_rows)) ELSE st.book
    IN  IF st.ocr_pages # <<>> THEN Append(b1, InfoSheet(st.ocr_pages)) ELSE b1

\* the page loop run from page k on, stopping at a propagated exception
RECURSIVE ConvPages(_, _, _)
ConvPages(st, pages, k) ==
    IF k > Len(pages) \/ st.raised THEN st
    ELSE ConvPages(ConvPage(st, pages[k], k), pages, k + 1)

\* str(e) of the exception raised by pdfplumber.open, and of one leaving the
\* page loop
OpenError == <<"b", "a", "d">>
PageError == <<"p", "a", "g", "e">>

\* convert_pdf_to_excel_bytes(pdf_bytes, display_name): the sheets of the
\* workbook, or an exception (pdfplumber.open fails on an unreadable document)
ConvReturn(st) ==
    IF st.raised THEN [raised |-> TRUE, book |-> <<>>, error |-> PageError]
    ELSE [raised |-> FALSE, book |-> ConvFinish(st), error |-> <<>>]

convert_pdf_to_excel_bytes(doc) ==
    IF ~doc.openable THEN [raised |-> TRUE, book |-> <<>>, error |-> OpenError]
    ELSE ConvReturn(ConvPages(ConvStart, doc.pages, 1))

\* ---------------------------------------------------------------------------
\* Inputs: raw tables, pages and documents the collaborator can hand over
\* ---------------------------------------------------------------------------
T_header == <<<<<<"N", "a", "m", "e">>, <<"Q", "t", "y">>>>, <<<<"A", "p", "p", "l", "e">>, <<"3">>>>, <<<<"P", "e", "a", "r">>, <<"5">>>>>>
T_narrative == <<<<<<"T", "o", "t", "a", "l">>>>, <<<<"S", "e", "e">>>>>>
T_noise == <<<<<<"x">>>>>>
T_blank == <<<<NoneCell, <<>>>>, <<<<>>>>>>
T_ragged == <<<<<<"a">>>>, <<NoneCell, <<"3">>, NoneCell, <<"b">>>>>>

Ok(v) == [ok |-> TRUE, tables |-> v]
Fails == [ok |-> FALSE, tables |-> <<>>]
TextOk(t) == [ok |-> TRUE, txt |-> t]
TextFails == [ok |-> FALSE, txt |-> <<>>]
Count(n) == [ok |-> TRUE, n |-> n]
CountFails == [ok |-> FALSE, n |-> 0]

Narrative == <<" ", "S", "e", "e", "\n", " ", "\n", "n", "o", "t", "e", " ">>
BlankText == <<" ", "\n">>

\* two tables
PageTwoTables ==
    [find |-> Ok(<<T_header, T_narrative>>), extract |-> Fails,
     text |-> TextOk(Narrative), words |-> Count(2), images |-> Count(0)]
\* one table among noise; its text would be non-empty
PageOneTable ==
    [find |-> Ok(<<T_noise, T_header, T_blank>>), extract |-> Ok(<<>>),
     text |-> TextOk(Narrative), words |-> Count(2), images |-> Count(1)]
\* narrative text only; the secondary extraction would find a table
PageNarrative ==
    [find |-> Ok(<<>>), extract |-> Ok(<<T_header>>),
     text |-> TextOk(Narrative), words |-> Count(2), images |-> Count(0)]
\* primary extraction fails, secondary finds a table
PagePrimaryFails ==
    [find |-> Fails, extract |-> Ok(<<T_ragged>>),
     text |-> TextFails, words |-> CountFails, images |-> Count(0)]
\* both extractions fail, text is there
PageBothFail ==
    [find |-> Fails, extract |-> Fails,
     text |-> TextOk(Narrative), words |-> Count(2), images |-> Count(1)]
\* every call fails
PageAllFail ==
    [find |-> Fails, extract |-> Fails,
     text |-> TextFails, words |-> CountFails, images |-> CountFails]
\* scanned page: no table, no text, no word, an image
PageScanned ==
    [find |-> Ok(<<>>), extract |-> Fails,
     text |-> TextOk(<<>>), words |-> Count(0), images |-> Count(1)]
\* only noise, text extraction fails, scanned
PageNoiseScanned ==
    [find |-> Ok(<<T_noise>>), extract |-> Fails,
     text |-> TextFails, words |-> Count(0), images |-> Count(2)]
\* blank page: nothing at all
PageBlank ==
    [find |-> Ok(<<>>), extract |-> Fails,
     text |-> TextOk(BlankText), words |-> Count(0), images |-> Count(0)]

PageSet ==
    {PageTwoTables, PageOneTable, PageNarrative, PagePrimaryFails, PageBothFail,
     PageAllFail, PageScanned, PageNoiseScanned, PageBlank}

RECURSIVE SeqsUpTo(_, _)
SeqsUpTo(S, n) ==
    IF n = 0 THEN {<<>>}
    ELSE LET R == SeqsUpTo(S, n - 1)
         IN  R \cup {Append(r, x) : r \in {t \in R : Len(t) = n - 1}, x \in S}

Unreadable == [openable |-> FALSE, pages |-> <<>>]

Docs == {Unreadable} \cup {[openable |-> TRUE, pages |-> ps] : ps \in SeqsUpTo(PageSet, MaxPages)}

\* ---------------------------------------------------------------------------
\* State
\* ---------------------------------------------------------------------------
VARIABLES
    \* convert_pdf_to_excel_bytes
    pdf, pc, page_index, book, tables_found, text_rows, ocr_pages,
    calls, page_tables,
    \* the batch driver
    uploaded_files, file_idx, archive, failed, batch_pc,
    \* sanitize_sheet_name
    name_in, name_out, san_pc,
    \* infer_header_row
    grid_in, header_idx, hdr_pc,
    \* clean_table_data
    raw_in, clean_out, cln_pc,
    \* the collision loop
    u_existing, u_base, u_sheet, u_suffix, u_pc

convVars == <<pdf, pc, page_index, book, tables_found, text_rows, ocr_pages,
              calls, page_tables>>
batchVars == <<uploaded_files, file_idx, archive, failed, batch_pc>>
sanVars == <<name_in, name_out, san_pc>>
hdrVars == <<grid_in, header_idx, hdr_pc>>
clnVars == <<raw_in, clean_out, cln_pc>>
uVars == <<u_existing, u_base, u_sheet, u_suffix, u_pc>>
vars == <<convVars, batchVars, sanVars, hdrVars, clnVars, uVars>>

\* the parts of the state a specification does not use
ConvIdle ==
    /\ pdf = Unreadable /\ pc = "idle" /\ page_index = 0 /\ book = <<>>
    /\ tables_found = 0 /\ text_rows = <<>> /\ ocr_pages = <<>>
    /\ calls = <<>> /\ page_tables = <<>>
BatchIdle ==
    /\ uploaded_files = <<>> /\ file_idx = 0 /\ archive = <<>> /\ failed = <<>>
    /\ batch_pc = "idle"
SanIdle == name_in = <<>> /\ name_out = <<>> /\ san_pc = "idle"
HdrIdle == grid_in = <<>> /\ header_idx = NoHeader /\ hdr_pc = "idle"
ClnIdle == raw_in = <<>> /\ clean_out = <<>> /\ cln_pc = "idle"
UIdle ==
    /\ u_existing = {} /\ u_base = <<>> /\ u_sheet = <<>> /\ u_suffix = 0
    /\ u_pc = "idle"

\* ---------------------------------------------------------------------------
\* Spec: one call of convert_pdf_to_excel_bytes, page by page
\* ---------------------------------------------------------------------------
ConvState ==
    [book |-> book, tables_found |-> tables_found, text_rows |-> text_rows,
     ocr_pages |-> ocr_pages, calls |-> calls, page_tables |-> page_tables,
     raised |-> FALSE]

Init ==
    /\ pdf \in Docs
    /\ pc = "open"
    /\ page_index = 0
    /\ book = ConvStart.book
    /\ tables_found = ConvStart.tables_found
    /\ text_rows = ConvStart.text_rows
    /\ ocr_pages = ConvStart.ocr_pages
    /\ calls = ConvStart.calls
    /\ page_tables = ConvStart.page_tables
    /\ BatchIdle /\ SanIdle /\ HdrIdle /\ ClnIdle /\ UIdle

\* with pdfplumber.open(io.BytesIO(pdf_bytes)) as pdf
Open ==
    /\ pc = "open"
    /\ pc' = IF pdf.openable THEN "pages" ELSE "raised"
    /\ UNCHANGED <<pdf, page_index, book, tables_found, text_rows, ocr_pages,
                   calls, page_tables>>

\* one iteration of the page loop
ProcessPage ==
    /\ pc = "pages"
    /\ page_index < Len(pdf.pages)
    /\ \E st \in {ConvPage(ConvState, pdf.pages[page_index + 1], page_index + 1)} :
           /\ page_index' = page_index + 1
           /\ book' = st.book
           /\ tables_found' = st.tables_found
           /\ text_rows' = st.text_rows
           /\ ocr_pages' = st.ocr_pages
           /\ calls' = st.calls
           /\ page_tables' = st.page_tables
           /\ pc' = IF st.raised THEN "raised" ELSE "pages"
    /\ UNCHANGED pdf

\* the code after the page loop, and the return
Finish ==
    /\ pc = "pages"
    /\ page_index = Len(pdf.pages)
    /\ book' = ConvFinish(ConvState)
    /\ pc' = "done"
    /\ UNCHANGED <<pdf, page_index, tables_found, text_rows, ocr_pages,
                   calls, page_tables>>

Next ==
    \/ Open /\ UNCHANGED <<batchVars, sanVars, hdrVars, clnVars, uVars>>
    \/ ProcessPage /\ UNCHANGED <<batchVars, sanVars, hdrVars, clnVars, uVars>>
    \/ Finish /\ UNCHANGED <<batchVars, sanVars, hdrVars, clnVars, uVars>>

Spec == Init /\ [][Next]_vars

\* ---------------------------------------------------------------------------
\* Properties of one conversion (Spec)
\* ---------------------------------------------------------------------------
IsPrefix(p, s) == Len(p) <= Len(s) /\ SubSeq(s, 1, Len(p)) = p

\* the table sheets of the book that were named for page k
TableSheetsOfPage(k) ==
    {i \in 1..Len(book) :
        book[i].kind = "table" /\ IsPrefix(<<"p">> \o ToStr(k) \o <<"_">>, book[i].name)}

TextRowsOfPage(k) == {i \in 1..Len(text_rows) : text_rows[i].Page = k}

BookNames == [i \in 1..Len(book) |-> book[i].name]

\* C1: page-level extraction failures are absorbed.  For every page handled so
\* far: find_tables was called; if it failed, extract_tables was called; if
\* both failed the page has no table sheet; if extract_text fails the page has
\* no text line.  No exception leaves the page loop of an opened document, the
\* loop always has a next step, and at the end every page was handled, in page
\* order.
PageFailuresAbsorbed ==
    /\ pdf.openable => pc # "raised"
    /\ pc = "pages" => page_index <= Len(pdf.pages)
    /\ pc \in {"pages", "done"} =>
          /\ Len(calls) = page_index /\ Len(page_tables) = page_index
          /\ \A k \in 1..page_index :
                LET page == pdf.pages[k]
                IN  /\ "find_tables" \in calls[k]
                    /\ ~page.find.ok => "extract_tables" \in calls[k]
                    /\ (~page.find.ok /\ ~page.extract.ok) =>
                          page_tables[k] = 0 /\ TableSheetsOfPage(k) = {}
                    /\ ~page.text.ok => TextRowsOfPage(k) = {}
    /\ pc = "done" => page_index = Len(pdf.pages)

\* C1 witness: a finished conversion in which a page failed in every call and
\* the page after it still produced a table sheet
PageFailuresAbsorbedWitness ==
    /\ pc = "done"
    /\ \E k \in 1..(Len(pdf.pages) - 1) :
          /\ ~pdf.pages[k].find.ok /\ ~pdf.pages[k].extract.ok /\ ~pdf.pages[k].text.ok
          /\ ~pdf.pages[k + 1].find.ok /\ pdf.pages[k + 1].extract.ok
          /\ TableSheetsOfPage(k + 1) # {}

\* C3: a conversion that completes has produced at least one sheet
AtLeastOneSheet == pc = "done" => Len(book) >= 1

\* C3 witness: a finished conversion of a document whose only page failed in
\* every call
AtLeastOneSheetWitness ==
    /\ pc = "done"
    /\ Len(pdf.pages) = 1
    /\ ~pdf.pages[1].find.ok /\ ~pdf.pages[1].extract.ok /\ ~pdf.pages[1].text.ok
    /\ Len(book) = 1

\* the scenario of C4: 3 pages, 2 surviving tables on page 1, 1 on page 2,
\* none on page 3 but text lines, no page flagged as scanned
ScenarioThreePages ==
    /\ pc = "done"
    /\ Len(pdf.pages) = 3
    /\ page_tables = <<2, 1, 0>>
    /\ TextRowsOfPage(3) # {}
    /\ ocr_pages = <<>>

P1Tbl1 == <<"p", "1", "_", "t", "b", "l", "1">>
P1Tbl2 == <<"p", "1", "_", "t", "b", "l", "2">>
P2Tbl1 == <<"p", "2", "_", "t", "b", "l", "1">>

\* C4 as stated: the scenario yields the sheets p1_tbl1, p1_tbl2, p2_tbl1, Text
\* in this order, the Text sheet holding the lines of page 3 only
ScenarioHasTextSheet ==
    ScenarioThreePages =>
        /\ BookNames = <<P1Tbl1, P1Tbl2, P2Tbl1, TextName>>
        /\ \A i \in 1..Len(book[4].data) : book[4].data[i].Page = 3

\* C4 as amended: the scenario yields exactly the sheets p1_tbl1, p1_tbl2,
\* p2_tbl1 in this order and no Text sheet: the lines of page 3 are collected
\* but the Text sheet is written only when the document produced no table
ScenarioTablesOnly ==
    ScenarioThreePages =>
        /\ BookNames = <<P1Tbl1, P1Tbl2, P2Tbl1>>
        /\ \A i \in 1..Len(book) : book[i].kind = "table"
        /\ TextRowsOfPage(3) = 1..Len(text_rows)

\* C4 witness: the scenario has been converted
ScenarioWitness == ScenarioThreePages /\ Len(book) = 3

\* C5: a document whose pages yield no surviving table, no text line and no
\* scan flag is converted to exactly one sheet, named Text, holding the single
\* placeholder row
FallbackPlaceholder ==
    (/\ pc = "done"
     /\ \A k \in 1..Len(page_tables) : page_tables[k] = 0
     /\ text_rows = <<>>
     /\ ocr_pages = <<>>) =>
        /\ Len(book) = 1
        /\ book[1].name = TextName
        /\ book[1].kind = "text"
        /\ book[1].data = <<[Page |-> NoPage, Text |-> NoContentText]>>

\* C5 witness: such a document with several pages, one of them failing
FallbackPlaceholderWitness ==
    /\ pc = "done"
    /\ Len(pdf.pages) >= 2
    /\ \A k \in 1..Len(page_tables) : page_tables[k] = 0
    /\ text_rows = <<>>
    /\ ocr_pages = <<>>
    /\ \E k \in 1..Len(pdf.pages) : ~pdf.pages[k].find.ok
    /\ BookNames = <<TextName>>

\* C7: no two sheets of a document have the same name
UniqueSheetNames ==
    \A i, j \in 1..Len(book) : i # j => book[i].name # book[j].name

\* C7 witness: a finished workbook with several table sheets of one page,
\* table sheets of another page, and the Info sheet
UniqueSheetNamesWitness ==
    /\ pc = "done"
    /\ Cardinality(TableSheetsOfPage(1)) = 2
    /\ TableSheetsOfPage(2) # {}
    /\ book[Len(book)].name = InfoName

\* ---------------------------------------------------------------------------
\* SpecSan: sanitize_sheet_name applied to one input string
\* ---------------------------------------------------------------------------
AffixAlphabet == {"a", " ", "\t", ":"}
FillChars == Forbidden \cup {"a", " "}
FillLens == {0, 1, MaxSheetLen - 1, MaxSheetLen, MaxSheetLen + 1}

\* prefix, a run of one character, suffix
NameInputs ==
    {pre \o Rep(c, n) \o post :
        pre \in StrUpTo(AffixAlphabet, MaxPre), post \in StrUpTo(AffixAlphabet, MaxPost),
        c \in FillChars, n \in FillLens}

InitSan ==
    /\ name_in \in NameInputs /\ name_out = <<>> /\ san_pc = "call"
    /\ ConvIdle /\ BatchIdle /\ HdrIdle /\ ClnIdle /\ UIdle

Sanitize ==
    /\ san_pc = "call"
    /\ name_out' = sanitize_sheet_name(name_in)
    /\ san_pc' = "return"
    /\ UNCHANGED <<name_in, convVars, batchVars, hdrVars, clnVars, uVars>>

NextSan == Sanitize

SpecSan == InitSan /\ [][NextSan]_vars

\* C6: the result of sanitize_sheet_name is non-empty, at most 31 characters
\* long and free of the characters : \ / ? * [ ]
SheetNameValid ==
    san_pc = "return" =>
        /\ Len(name_out) >= 1
        /\ Len(name_out) <= 31
        /\ \A i \in 1..Len(name_out) : name_out[i] \notin {":", "\\", "/", "?", "*", "[", "]"}

\* C6 witness: an input longer than 31 characters that holds a forbidden
\* character has been sanitized to a name of 31 characters
SheetNameValidWitness ==
    /\ san_pc = "return"
    /\ Len(name_in) > 31
    /\ \E i \in 1..Len(name_in) : name_in[i] \in {":", "\\", "/", "?", "*", "[", "]"}
    /\ Len(name_out) = 31

\* ---------------------------------------------------------------------------
\* SpecHdr: infer_header_row applied to one grid
\* ---------------------------------------------------------------------------
NumericCells == <<<<"3">>, <<"1", ",", "0", "0", "0">>, <<"-", ".", "5">>, <<" ", "4", "2", " ">>>>
StringCells == <<<<"A", "p", "p", "l", "e">>, <<",">>, <<"3", "a">>, <<".">>>>
BlankCells == <<NoneCell, <<>>>>

HeaderRows ==
    {<<>>, <<<<"N", "a", "m", "e">>, <<"Q", "t", "y">>>>, <<<<"N", "a", "m", "e">>, NoneCell>>, <<<<"3">>, <<"Q", "t", "y">>>>,
     <<<<"1", ",", "0", "0", "0">>>>, <<NoneCell, <<>>>>, <<<<",">>, <<".">>>>, <<<<"N", "a", "m", "e">>, <<" ", "4", "2", " ">>>>}

\* nNum numeric cells, nStr other non-empty cells and nBlank absent/empty
\* cells, numeric ones first or last
BodyCells(nNum, nStr, nBlank, numFirst) ==
    LET nums == [i \in 1..nNum |-> NumericCells[((i - 1) % Len(NumericCells)) + 1]]
        strs == [i \in 1..nStr |-> StringCells[((i - 1) % Len(StringCells)) + 1]]
        blks == [i \in 1..nBlank |-> BlankCells[((i - 1) % Len(BlankCells)) + 1]]
    IN  IF numFirst THEN nums \o blks \o strs ELSE strs \o blks \o nums

\* the cells cut into rows of width w (the last row may be shorter)
RECURSIVE Chunk(_, _)
Chunk(cells, w) ==
    IF cells = <<>> THEN <<>>
    ELSE IF Len(cells) <= w THEN <<cells>>
    ELSE <<SubSeq(cells, 1, w)>> \o Chunk(SubSeq(cells, w + 1, Len(cells)), w)

GridInputs ==
    {<<>>} \cup
    {<<h>> \o Chunk(BodyCells(nNum, nStr, nBlank, numFirst), w) :
        h \in HeaderRows, nNum \in 0..MaxNum, nStr \in 0..MaxStr, nBlank \in 0..2,
        numFirst \in BOOLEAN, w \in 1..2}

InitHdr ==
    /\ grid_in \in GridInputs /\ header_idx = NoHeader /\ hdr_pc = "call"
    /\ ConvIdle /\ BatchIdle /\ SanIdle /\ ClnIdle /\ UIdle

InferHeader ==
    /\ hdr_pc = "call"
    /\ header_idx' = infer_header_row(grid_in)
    /\ hdr_pc' = "return"
    /\ UNCHANGED <<grid_in, convVars, batchVars, sanVars, clnVars, uVars>>

NextHdr == InferHeader

SpecHdr == InitHdr /\ [][NextHdr]_vars

\* the cells of rows 1..end that are neither absent nor empty, by position
BodyPool(g) ==
    UNION {{<<i, j>> : j \in {k \in 1..Len(g[i]) : g[i][k] # NoneCell /\ g[i][k] # <<>>}} :
              i \in 2..Len(g)}

NumericPool(g) == {q \in BodyPool(g) : is_number(g[q[1]][q[2]])}

\* C8: infer_header_row returns 0 exactly when the grid and its row 0 are
\* non-empty, no cell of row 0 is numeric (an absent cell is not numeric) and
\* strictly more than 15% of the non-empty cells of the later rows are numeric;
\* otherwise it returns None
HeaderRule ==
    hdr_pc = "return" =>
        /\ header_idx \in {0, NoHeader}
        /\ header_idx = 0 <=>
              /\ Len(grid_in) > 0
              /\ Len(grid_in[1]) > 0
              /\ \A j \in 1..Len(grid_in[1]) :
                    ~(grid_in[1][j] # NoneCell /\ is_number(grid_in[1][j]))
              /\ Cardinality(NumericPool(grid_in)) * 100
                    > 15 * Cardinality(BodyPool(grid_in))

\* C8 witness: a grid with a non-numeric row 0 whose body is numeric for
\* exactly 3 cells of 20 got no header
HeaderRuleWitness ==
    /\ hdr_pc = "return"
    /\ Len(grid_in) > 1 /\ Len(grid_in[1]) > 0
    /\ \A j \in 1..Len(grid_in[1]) : ~is_number(grid_in[1][j])
    /\ Cardinality(BodyPool(grid_in)) = 20
    /\ Cardinality(NumericPool(grid_in)) = 3
    /\ header_idx = NoHeader

\* ---------------------------------------------------------------------------
\* SpecCln: clean_table_data applied to one raw table
\* ---------------------------------------------------------------------------
\* a cell of kind "N" is None, of kind "E" the empty string, of kind "F" a
\* string that spells its row and column
CellOf(kind, r, c) ==
    IF kind = "N" THEN NoneCell ELSE IF kind = "E" THEN <<>> ELSE ToStr(r) \o <<".">> \o ToStr(c)

RawInputs ==
    {[r \in 1..Len(g) |-> [c \in 1..Len(g[r]) |-> CellOf(g[r][c], r, c)]] :
        g \in SeqsUpTo(StrUpTo({"N", "E", "F"}, MaxCols), MaxRows)}

InitCln ==
    /\ raw_in \in RawInputs /\ clean_out = <<>> /\ cln_pc = "call"
    /\ ConvIdle /\ BatchIdle /\ SanIdle /\ HdrIdle /\ UIdle

Clean ==
    /\ cln_pc = "call"
    /\ clean_out' = clean_table_data(raw_in)
    /\ cln_pc' = "return"
    /\ UNCHANGED <<raw_in, convVars, batchVars, sanVars, hdrVars, uVars>>

NextCln == Clean

SpecCln == InitCln /\ [][NextCln]_vars

Filled(cell) == cell # NoneCell /\ cell # <<>>

\* the raw rows that hold a non-empty cell
KeptRows(raw) == {i \in 1..Len(raw) : \E j \in 1..Len(raw[i]) : Filled(raw[i][j])}

LongestKept(raw) ==
    CHOOSE m \in {Len(raw[i]) : i \in KeptRows(raw)} :
        \A i \in KeptRows(raw) : Len(raw[i]) <= m

\* the column indices, below the longest kept row's length, that hold a
\* non-empty cell in some row
KeptCols(raw) ==
    {c \in 1..LongestKept(raw) :
        \E i \in KeptRows(raw) : c <= Len(raw[i]) /\ Filled(raw[i][c])}

\* the n-th smallest element of a set of numbers
Nth(S, n) == CHOOSE e \in S : Cardinality({x \in S : x <= e}) = n

\* C9: the result of clean_table_data is empty, or a rectangular grid without
\* all-empty row or column whose rows are the raw rows with a non-empty cell
\* and whose columns are the column indices with a non-empty cell, both in the
\* original order, short rows read as padded with absent cells
CleanedGrid ==
    cln_pc = "return" =>
        IF KeptRows(raw_in) = {} THEN clean_out = <<>>
        ELSE /\ Len(clean_out) = Cardinality(KeptRows(raw_in))
             /\ \A i \in 1..Len(clean_out) :
                   /\ Len(clean_out[i]) = Cardinality(KeptCols(raw_in))
                   /\ \E j \in 1..Len(clean_out[i]) : Filled(clean_out[i][j])
             /\ \A j \in 1..Cardinality(KeptCols(raw_in)) :
                   \E i \in 1..Len(clean_out) : Filled(clean_out[i][j])
             /\ \A i \in 1..Len(clean_out) : \A j \in 1..Len(clean_out[i]) :
                   LET r == Nth(KeptRows(raw_in), i)
                       c == Nth(KeptCols(raw_in), j)
                   IN  clean_out[i][j] =
                           IF c <= Len(raw_in[r]) THEN raw_in[r][c] ELSE NoneCell

\* C9 witness: a ragged raw table of which both rows were kept, the short one
\* padded, and an all-empty column dropped
CleanedGridWitness ==
    /\ cln_pc = "return"
    /\ \E i, k \in 1..Len(raw_in) : Len(raw_in[i]) < Len(raw_in[k])
    /\ Len(clean_out) = Len(raw_in)
    /\ \E i \in 1..Len(raw_in) : Len(clean_out[1]) < Len(raw_in[i])

\* ---------------------------------------------------------------------------
\* SpecBatch: the batch driver (several uploaded files)
\* ---------------------------------------------------------------------------
\* the index of the last "." of a file name that is not one of its leading
\* dots, 0 if there is none
ExtDot(name) ==
    LET dots == {i \in 1..Len(name) :
                    name[i] = "." /\ \E k \in 1..(i - 1) : name[k] # "."}
    IN  IF dots = {} THEN 0 ELSE CHOOSE i \in dots : \A k \in dots : k <= i

\* os.path.splitext(f.name)[0] + ".xlsx" (file names hold no path separator)
XlsxName(name) ==
    (IF ExtDot(name) = 0 THEN name ELSE SubSeq(name, 1, ExtDot(name) - 1))
        \o <<".", "x", "l", "s", "x">>

\* f"{f.name} ({e})"
FailedEntry(name, error) == name \o <<" ", "(">> \o error \o <<")">>

\* mutant: no try/except around the conversion, an exception ends the loop
TryConvert_no_except(f, zf, fl, r) ==
    IF ~r.raised
    THEN [archive |-> Append(zf, [name |-> XlsxName(f.name), book |-> r.book]),
          failed |-> fl, aborted |-> FALSE]
    ELSE [archive |-> zf, failed |-> fl, aborted |-> TRUE]

\* try: zf.writestr(xlsx_name, excel_bytes)   except: failed.append(...),
\* r being the outcome of the conversion
TryConvert(f, zf, fl, r) ==
    IF ~r.raised
    THEN [archive |-> Append(zf, [name |-> XlsxName(f.name), book |-> r.book]),
          failed |-> fl, aborted |-> FALSE]
    ELSE [archive |-> zf, failed |-> Append(fl, FailedEntry(f.name, r.error)),
          aborted |-> FALSE]

\* the body of: for f in uploaded_files
BatchIteration(f, zf, fl) == TryConvert(f, zf, fl, convert_pdf_to_excel_bytes(f.doc))

FileNames == {<<"a", ".", "p", "d", "f">>, <<"b", ".", "p", "d", "f">>}

BatchDocs ==
    {Unreadable,
     [openable |-> TRUE, pages |-> <<>>],
     [openable |-> TRUE, pages |-> <<PageTwoTables>>],
     [openable |-> TRUE, pages |-> <<PageAllFail, PageNarrative>>]}

FileSet == {[name |-> n, doc |-> d] : n \in FileNames, d \in BatchDocs}

InitBatch ==
    /\ uploaded_files \in {fs \in SeqsUpTo(FileSet, MaxFiles) : Len(fs) >= 2}
    /\ file_idx = 0 /\ archive = <<>> /\ failed = <<>> /\ batch_pc = "loop"
    /\ ConvIdle /\ SanIdle /\ HdrIdle /\ ClnIdle /\ UIdle

BatchStep ==
    /\ batch_pc = "loop"
    /\ file_idx < Len(uploaded_files)
    /\ \E r \in {BatchIteration(uploaded_files[file_idx + 1], archive, failed)} :
           /\ archive' = r.archive
           /\ failed' = r.failed
           /\ batch_pc' = IF r.aborted THEN "aborted" ELSE "loop"
    /\ file_idx' = file_idx + 1
    /\ UNCHANGED <<uploaded_files, convVars, sanVars, hdrVars, clnVars, uVars>>

\* the loop is over: the archive is closed and offered for download
BatchEnd ==
    /\ batch_pc = "loop"
    /\ file_idx = Len(uploaded_files)
    /\ batch_pc' = "done"
    /\ UNCHANGED <<uploaded_files, file_idx, archive, failed,
                   convVars, sanVars, hdrVars, clnVars, uVars>>

NextBatch == BatchStep \/ BatchEnd

SpecBatch == InitBatch /\ [][NextBatch]_vars

Attempted == SubSeq(uploaded_files, 1, file_idx)
Converted == SelectSeq(Attempted, LAMBDA f : f.doc.openable)
Unconverted == SelectSeq(Attempted, LAMBDA f : ~f.doc.openable)

\* C2: the loop never stops early; the files attempted so far are, in
\* submission order, one archive entry for each file that converts and one
\* failed record (name and cause) for each that does not; at the end every
\* file was attempted and entries plus failed records number the files
BatchAccounting ==
    /\ batch_pc \in {"loop", "done"}
    /\ Len(archive) + Len(failed) = file_idx
    /\ Len(archive) = Len(Converted)
    /\ \A i \in 1..Len(archive) :
          LET n == Converted[i].name
          IN  archive[i].name = SubSeq(n, 1, Len(n) - 4) \o <<".", "x", "l", "s", "x">>
    /\ Len(failed) = Len(Unconverted)
    /\ \A i \in 1..Len(failed) :
          failed[i] = Unconverted[i].name \o <<" ", "(">> \o OpenError \o <<")">>
    /\ batch_pc = "done" =>
          /\ file_idx = Len(uploaded_files)
          /\ Len(archive) + Len(failed) = Len(uploaded_files)

\* C2 witness: a finished batch whose first file failed and whose later files
\* include a converted one
BatchAccountingWitness ==
    /\ batch_pc = "done"
    /\ ~uploaded_files[1].doc.openable
    /\ Len(failed) >= 1
    /\ Len(archive) >= 1

\* ---------------------------------------------------------------------------
\* SpecU: the collision loop that names one sheet, iteration by iteration
\* ---------------------------------------------------------------------------
\* candidate names: those of table sheets, and plain names around the
\* length limit
Candidates ==
    {TableSheetCandidate(1, 0), TableSheetCandidate(2, 1)}
        \cup {Rep("a", n) : n \in {1, MaxSheetLen - 3, MaxSheetLen - 2,
                                   MaxSheetLen - 1, MaxSheetLen, MaxSheetLen + 1}}

\* names that may already be in the workbook
NamePool(base) ==
    {base, TextName} \cup {sanitize_sheet_name(Suffixed(base, k)) : k \in 2..4}

InitU ==
    /\ \E c \in Candidates :
          /\ u_base = sanitize_sheet_name(c)
          /\ u_sheet = u_base
          /\ u_existing \in {E \in SUBSET NamePool(u_base) : Cardinality(E) <= MaxExisting}
    /\ u_suffix = 2
    /\ u_pc = "loop"
    /\ ConvIdle /\ BatchIdle /\ SanIdle /\ HdrIdle /\ ClnIdle

\* when base fills the name up to the "_" the digits of the suffix are cut
\* off by the truncation and the tried name does not depend on the suffix
SuffixCutOff(base) == Len(base) + 1 >= MaxSheetLen

\* one iteration: sheet = sanitize_sheet_name(f"{base}_{suffix}"); suffix += 1.
\* The counter is unbounded in the program.  Where the tried name does not
\* depend on it (SuffixCutOff) it is kept modulo the bound, which leaves the
\* sequence of tried names unchanged; elsewhere the bound is never reached.
UIterate ==
    /\ u_pc = "loop"
    /\ u_sheet \in u_existing
    /\ u_suffix <= MaxSuffix
    /\ u_sheet' = sanitize_sheet_name(Suffixed(u_base, u_suffix))
    /\ u_suffix' = IF SuffixCutOff(u_base) /\ u_suffix = MaxSuffix THEN 2 ELSE u_suffix + 1
    /\ UNCHANGED <<u_existing, u_base, u_pc,
                   convVars, batchVars, sanVars, hdrVars, clnVars>>

\* the loop condition is false: the sheet is written under this name
UExit ==
    /\ u_pc = "loop"
    /\ u_sheet \notin u_existing
    /\ u_pc' = "done"
    /\ UNCHANGED <<u_existing, u_base, u_sheet, u_suffix,
                   convVars, batchVars, sanVars, hdrVars, clnVars>>

NextU == UIterate \/ UExit

SpecU == InitU /\ [][NextU]_vars /\ WF_vars(NextU)

ExitsWhenSuffixFits ==
    ~SuffixCutOff(u_base) => u_suffix <= Cardinality(u_existing) + 2

TerminatesWhenSuffixFits == SuffixCutOff(u_base) \/ <>(u_pc = "done")

====
